---- MODULE Spec2Model ----
(***************************************************************************)
(* Model of the aquanexus ml-service: the versioned artifact store kept by *)
(* ModelTrainer (models/trainer.py), the persistence of LSTMPredictor      *)
(* (models/lstm_model.py) and the window builder of DataProcessor          *)
(* (models/data_processor.py).                                             *)
(*                                                                         *)
(* File names are kept as what the code's string tests see: the            *)
(* '_'-separated word tokens of "{model_type}_{horizon}", the digits of    *)
(* the version and the suffix.  Because the listing pattern ends in '_',   *)
(* str.startswith(pattern) is exactly a token-prefix test on the stem.     *)
(***************************************************************************)
EXTENDS Integers, Sequences, FiniteSets, TLC

VARIABLES
    files,      \* models_dir: file name -> content
    clock,      \* datetime.now(), in seconds
    run,        \* the training run in progress (its position and locals)
    nRuns,      \* training runs started so far
    nRaised,    \* training runs that ended by raising
    ret,        \* outcome of the last completed call
    data,       \* create_sequences: the scaled table (rows of feature values)
    seqLen,     \* DataProcessor.sequence_length
    predSteps,  \* DataProcessor.prediction_steps
    targetIdx,  \* create_sequences: target_idx
    X,          \* create_sequences: returned input windows
    y,          \* create_sequences: returned targets
    wpc,        \* position of the window builder call
    readings,   \* the readings handed to prepare_dataframe
    proc,       \* the DataProcessor object
    record,     \* the parameter file written by save_params
    out,        \* outcome of the last DataProcessor call
    registry,   \* the ml_models table of utils/db.py: row id -> row
    arg         \* the arguments a forecast function is called with

lifecycleVars == <<files, clock, run, nRuns, nRaised, ret>>
windowVars == <<data, seqLen, predSteps, targetIdx, X, y, wpc>>
procVars == <<readings, proc, record, out>>
serviceVars == <<registry, arg>>
vars ==
    <<files, clock, run, nRuns, nRaised, ret, data, seqLen, predSteps, targetIdx, X, y, wpc,
      readings, proc, record, out, registry, arg>>

(***************************************************************************)
(* Bounds of the model.                                                    *)
(***************************************************************************)
MaxRuns == 2
MaxRaised == 1
ClockStart == 9
MaxRows == 4
MaxSeqLen == 2
MaxPredSteps == 2
MaxReadings == 2
MaxModels == 3

Min(a, b) == IF a < b THEN a ELSE b
Max(a, b) == IF a > b THEN a ELSE b

(***************************************************************************)
(* Model types and horizons the calls are made with.                       *)
(***************************************************************************)
ModelTypes == {<<"height">>, <<"height", "multivariate">>}
Horizons == {"short", "medium"}
Keys ==
    {<<<<"height">>, "short">>, <<<<"height">>, "medium">>,
     <<<<"height", "multivariate">>, "short">>}

(***************************************************************************)
(* File names.  model_path is "{model_type}_{horizon}_{version}" under     *)
(* models_dir; a file name is a model_path plus a suffix.                  *)
(***************************************************************************)
ModelPath(model_type, horizon, version) ==
    [stem |-> model_type \o <<horizon>>, version |-> version]

WithSuffix(model_path, suffix) ==
    [stem |-> model_path.stem, version |-> model_path.version, suffix |-> suffix]

PathOf(name) == [stem |-> name.stem, version |-> name.version]

\* str.startswith(f"{model_type}_{horizon}_")
StartsWith(name, pattern) ==
    /\ Len(pattern) <= Len(name.stem)
    /\ SubSeq(name.stem, 1, Len(pattern)) = pattern

\* str.endswith(suffix)
EndsWith(name, suffix) == name.suffix = suffix

\* Python's order on the words used in file names; every letter sorts after
\* every digit, so a word sorts after any digit of a version.
WordCode(w) ==
    CASE w = "height" -> 10
      [] w = "medium" -> 11
      [] w = "moisture" -> 12
      [] w = "multivariate" -> 13
      [] w = "plant" -> 14
      [] w = "short" -> 15

NameCodes(name) ==
    [i \in 1..Len(name.stem) |-> WordCode(name.stem[i])] \o name.version

\* a < b for Python strings, on their code sequences
LexLess(a, b) ==
    \E i \in 1..(Min(Len(a), Len(b)) + 1) :
        /\ \A j \in 1..(i - 1) : a[j] = b[j]
        /\ \/ i > Len(a) /\ i <= Len(b)
           \/ i <= Len(a) /\ i <= Len(b) /\ a[i] < b[i]

NameLess(m, n) == LexLess(NameCodes(m), NameCodes(n))

\* list.sort(reverse=True) of a directory listing, as a sequence
RECURSIVE SortReverse(_)
SortReverse(S) ==
    IF S = {} THEN <<>>
    ELSE LET first == CHOOSE n \in S : \A m \in S : ~NameLess(n, m)
         IN <<first>> \o SortReverse(S \ {first})

\* datetime.now().strftime('%Y%m%d_%H%M%S'): zero-padded, fixed width
StrfTime(t) == <<(t \div 10) % 10, t % 10>>

(***************************************************************************)
(* The directory.                                                          *)
(***************************************************************************)
ListDir(fs) == DOMAIN fs

Exists(fs, name) == name \in DOMAIN fs

\* open(name, 'w') ... write: creates or replaces the file
Write(fs, name, content) ==
    [n \in (DOMAIN fs) \cup {name} |-> IF n = name THEN content ELSE fs[n]]

NoRet == [op |-> "none"]
Idle == [pc |-> "idle"]

(***************************************************************************)
(* ModelTrainer.load_latest_model                                          *)
(***************************************************************************)
\* the pattern without the horizon: f"{model_type}_"
PatternTypeOnly(model_type, horizon) == model_type

\* pattern = f"{self.model_type}_{self.prediction_horizon}_"
Pattern(model_type, horizon) == model_type \o <<horizon>>

ModelFiles(fs, model_type, horizon) ==
    {f \in ListDir(fs) :
        StartsWith(f, Pattern(model_type, horizon)) /\ EndsWith(f, ".keras")}

\* the listing sorted ascending: the oldest version comes first
LatestPathAscending(fs, model_type, horizon) ==
    LET sorted == SortReverse(ModelFiles(fs, model_type, horizon))
    IN PathOf(sorted[Len(sorted)])

\* model_files.sort(reverse=True); model_files[0].replace('.keras', '')
LatestPath(fs, model_type, horizon) ==
    PathOf(SortReverse(ModelFiles(fs, model_type, horizon))[1])

\* open(name) and json.load: a file that is not there raises
\* FileNotFoundError; a file that open(.., 'w') has created and json.dump has
\* not yet filled raises JSONDecodeError.
ReadJson(fs, name) ==
    IF ~Exists(fs, name) THEN "FileNotFoundError"
    ELSE IF fs[name].text = "empty" THEN "JSONDecodeError"
    ELSE "ok"

LoadFailed(model_type, horizon, error, at, model_path) ==
    [op |-> "load_latest_model", model_type |-> model_type, horizon |-> horizon,
     status |-> error, at |-> at, model_path |-> model_path]

\* The whole call: the listing, LSTMPredictor.load (the .keras file, then
\* _metadata.json), DataProcessor.load_params (_processor.json).
LoadLatestModel(fs, model_type, horizon) ==
    IF ModelFiles(fs, model_type, horizon) = {}
    THEN [op |-> "load_latest_model", model_type |-> model_type, horizon |-> horizon,
          status |-> "FileNotFoundError", at |-> "listing"]
    ELSE LET model_path == LatestPath(fs, model_type, horizon)
             metadata == WithSuffix(model_path, "_metadata.json")
             params == WithSuffix(model_path, "_processor.json")
         IN IF ReadJson(fs, metadata) # "ok"
            THEN LoadFailed(model_type, horizon, ReadJson(fs, metadata), "metadata",
                            model_path)
            ELSE IF ReadJson(fs, params) # "ok"
            THEN LoadFailed(model_type, horizon, ReadJson(fs, params), "processor",
                            model_path)
            ELSE [op |-> "load_latest_model", model_type |-> model_type,
                  horizon |-> horizon, status |-> "ok", model_path |-> model_path,
                  predictor |-> [model |-> fs[WithSuffix(model_path, ".keras")],
                                 metadata |-> fs[metadata]],
                  processor |-> fs[params]]

(***************************************************************************)
(* ModelTrainer.get_model_info                                             *)
(***************************************************************************)
ResultFiles(fs, model_type, horizon) ==
    {f \in ListDir(fs) :
        StartsWith(f, Pattern(model_type, horizon)) /\ EndsWith(f, "_results.json")}

\* The body of the try: json.load of a file that open(.., 'w') has created and
\* json.dump has not yet filled raises JSONDecodeError.
ReadModelInfo(fs, model_type, horizon) ==
    IF ResultFiles(fs, model_type, horizon) = {}
    THEN [status |-> "None"]
    ELSE LET first == SortReverse(ResultFiles(fs, model_type, horizon))[1]
         IN IF fs[first].text = "empty"
            THEN [status |-> "raised"]
            ELSE [status |-> "value", value |-> fs[first]]

\* get_model_info without its try/except
CatchNothing(r) == r

\* except Exception: return None
CatchAll(r) == IF r.status = "raised" THEN [status |-> "None"] ELSE r

GetModelInfo(fs, model_type, horizon) ==
    [op |-> "get_model_info", model_type |-> model_type, horizon |-> horizon,
     result |-> CatchAll(ReadModelInfo(fs, model_type, horizon))]

(***************************************************************************)
(* Floating point values of numpy and pandas, kept as a pair               *)
(* <<numerator, denominator>> in lowest terms: <<n, 1>> is the number n,   *)
(* <<1, 0>> is inf, <<-1, 0>> is -inf and <<0, 0>> is nan.  Rounding is    *)
(* not modelled; division by zero and the arithmetic of inf and nan are.   *)
(***************************************************************************)
Abs(n) == IF n < 0 THEN -n ELSE n
Sign(n) == IF n > 0 THEN 1 ELSE IF n < 0 THEN -1 ELSE 0

RECURSIVE Gcd(_, _)
Gcd(a, b) == IF b = 0 THEN a ELSE Gcd(b, a % b)

Float(n, d) ==
    IF d = 0 THEN <<Sign(n), 0>>
    ELSE LET g == Gcd(Abs(n), Abs(d))
             s == IF d < 0 THEN -1 ELSE 1
         IN <<(s * n) \div g, (s * d) \div g>>

NaN == <<0, 0>>
IsNaN(x) == x = NaN
NotNaN(x) == x # NaN

\* a + b: inf + -inf = nan, nan + b = nan
FAdd(a, b) ==
    IF a[2] = 0 /\ b[2] = 0 THEN (IF a = b THEN a ELSE NaN)
    ELSE Float(a[1] * b[2] + b[1] * a[2], a[2] * b[2])

\* a * b: 0 * inf = nan
FMul(a, b) == Float(a[1] * b[1], a[2] * b[2])

FNeg(a) == <<-a[1], a[2]>>
FSub(a, b) == FAdd(a, FNeg(b))

\* 1 / a: 1 / 0.0 = inf (numpy warns and goes on)
FInv(a) == Float(a[2], a[1])

FLess(a, b) == a[1] * b[2] < b[1] * a[2]

RECURSIVE SumSeq(_)
SumSeq(s) == IF Len(s) = 0 THEN Float(0, 1) ELSE FAdd(Head(s), SumSeq(Tail(s)))

\* .mean() of a group: missing values are skipped, a group without a valid
\* value has mean nan
Mean(s) ==
    LET valid == SelectSeq(s, NotNaN)
    IN IF Len(valid) = 0 THEN NaN ELSE FMul(SumSeq(valid), Float(1, Len(valid)))

\* int(x) truncates towards zero
Truncate(x) == IF x[1] >= 0 THEN x[1] \div x[2] ELSE -((-x[1]) \div x[2])

\* split_idx = int(len(X) * (1 - test_split)); for the fractions drawn here
\* (0.2, 0.5) the rounded product has the integer part of the exact one
SplitIdx(n, test_split) == Truncate(FMul(Float(n, 1), FSub(Float(1, 1), test_split)))

(***************************************************************************)
(* ModelTrainer.train, one step per write to models_dir.  A run is the     *)
(* position in train() and its locals; id tells the runs apart.            *)
(***************************************************************************)
\* the regressor file: the network build_model made has one output for every
\* prediction step the predictor had then
KerasContent(r, text) ==
    [by |-> r.id, text |-> text, outputs |-> r.predictor.prediction_steps]

EmptyFile(r) == [by |-> r.id, text |-> "empty"]

\* MODEL_CONFIGS, for the configured model types of this model
ModelConfigs ==
    [t \in ModelTypes |->
        IF t = <<"height">>
        THEN [sequence_length |-> 24, units |-> 128,
              features |-> <<"height", "temperature", "humidity", "pressure">>,
              config_of |-> <<"height">>]
        ELSE [sequence_length |-> 48, units |-> 128,
              features |-> <<"height", "temperature", "humidity", "pressure">>,
              config_of |-> <<"height", "multivariate">>]]

\* ModelTrainer.__init__: MODEL_CONFIGS.get(model_type, MODEL_CONFIGS['height'])
TrainerConfig(model_type) ==
    IF model_type \in DOMAIN ModelConfigs THEN ModelConfigs[model_type]
    ELSE ModelConfigs[<<"height">>]

\* train(): the parameters taken from the horizon
SequenceLength(config, horizon) == IF horizon = "short" THEN config.sequence_length ELSE 7
PredictionSteps(horizon) == IF horizon = "short" THEN 24 ELSE 7

\* LSTMPredictor.__init__: the predictor takes its prediction steps from the
\* horizon by itself
PredictorSteps(prediction_horizon) == IF prediction_horizon = "short" THEN 24 ELSE 7

LSTMPredictorInit(sequence_length, prediction_horizon) ==
    [sequence_length |-> sequence_length,
     prediction_steps |-> PredictorSteps(prediction_horizon)]

\* LSTMPredictor.save: the metadata record
MetadataContent(r) ==
    [by |-> r.id, text |-> "json", model_type |-> r.model_type,
     prediction_horizon |-> r.horizon,
     sequence_length |-> r.predictor.sequence_length,
     prediction_steps |-> r.predictor.prediction_steps]

\* DataProcessor.save_params: the params record
ProcessorContent(r) ==
    [by |-> r.id, text |-> "json", sequence_length |-> r.sequence_length,
     prediction_steps |-> r.prediction_steps, feature_columns |-> r.config.features]

\* ModelTrainer.train: the results record
ResultsContent(r) ==
    [by |-> r.id, text |-> "json", model_type |-> r.model_type,
     version |-> r.version, prediction_horizon |-> r.horizon,
     model_path |-> r.model_path,
     evaluation |-> [model |-> r.id]]

\* f"{model_path}.keras", handed to fit and written by LSTMPredictor.save
KerasFile(model_path) == WithSuffix(model_path, ".keras")
MetadataFile(model_path) == WithSuffix(model_path, "_metadata.json")
\* save_params handed the metadata path
ProcessorFileClash(model_path) == WithSuffix(model_path, "_metadata.json")
ProcessorFile(model_path) == WithSuffix(model_path, "_processor.json")
ResultsFile(model_path) == WithSuffix(model_path, "_results.json")

\* the least number of training windows train() goes on with
MinTrainSamples == 10

\* no minimum
NoMinimum(n_windows) == FALSE

\* if len(X_train) < 10: raise ValueError(..), X_train being the training
\* part of the n_windows windows for test_split=0.2
InsufficientTraining(n_windows) == SplitIdx(n_windows, Float(1, 5)) < MinTrainSamples

\* api.train.train_model around trainer.train: the results wrapped, an
\* exception turned into an error record
ApiTrainModel(r) ==
    IF r.status = "raised"
    THEN [op |-> "train_model", model_type |-> r.model_type, horizon |-> r.horizon,
          success |-> FALSE, error |-> r.at]
    ELSE [op |-> "train_model", model_type |-> r.model_type, horizon |-> r.horizon,
          success |-> TRUE, results |-> r.results]

\* what the caller of train() gets: train_model catches, a direct caller
\* gets the return value or the exception
TrainReturn(caller, r) == IF caller = "train_model" THEN ApiTrainModel(r) ELSE r

\* version = datetime.now().strftime(..); model_path = join(models_dir, ..)
NewRun(id, model_type, horizon, now, n_windows, caller) ==
    [pc |-> "fit", id |-> id, model_type |-> model_type, horizon |-> horizon,
     caller |-> caller,
     config |-> TrainerConfig(model_type),
     sequence_length |-> SequenceLength(TrainerConfig(model_type), horizon),
     prediction_steps |-> PredictionSteps(horizon),
     predictor |-> LSTMPredictorInit(SequenceLength(TrainerConfig(model_type), horizon),
                                     horizon),
     windows |-> n_windows,
     version |-> StrfTime(now),
     model_path |-> ModelPath(model_type, horizon, StrfTime(now))]

\* train() up to the version: the data prepared into n_windows windows, the
\* minimum tested, the model built, the version string made
TrainBegin(model_type, horizon, now, n_windows, caller) ==
    /\ run.pc = "idle"
    /\ nRuns < MaxRuns
    /\ ~InsufficientTraining(n_windows)
    /\ nRuns' = nRuns + 1
    /\ clock' = now
    /\ run' = NewRun(nRuns + 1, model_type, horizon, now, n_windows, caller)
    /\ ret' = NoRet
    /\ UNCHANGED <<files, nRaised>>
    /\ UNCHANGED <<windowVars, procVars, serviceVars>>

\* train() on readings that give too few windows: the ValueError is raised
\* before the version is made
TrainRejected(model_type, horizon, n_windows, caller) ==
    /\ run.pc = "idle"
    /\ InsufficientTraining(n_windows)
    /\ ret' = TrainReturn(caller,
                  [op |-> "train", model_type |-> model_type, horizon |-> horizon,
                   status |-> "raised", at |-> "data", windows |-> n_windows])
    /\ UNCHANGED <<files, clock, run, nRuns, nRaised>>
    /\ UNCHANGED <<windowVars, procVars, serviceVars>>

Step(pc, next, name, content) ==
    /\ run.pc = pc
    /\ files' = Write(files, name, content)
    /\ run' = [run EXCEPT !.pc = next]
    /\ ret' = NoRet
    /\ UNCHANGED <<clock, nRuns, nRaised>>
    /\ UNCHANGED <<windowVars, procVars, serviceVars>>

\* predictor.fit: ModelCheckpoint writes the best model so far to model_path
Fit ==
    Step("fit", "save_model", KerasFile(run.model_path), KerasContent(run, "checkpoint"))

\* evaluate, then predictor.save: self.model.save(f"{path}.keras")
SaveModel ==
    Step("save_model", "save_metadata", KerasFile(run.model_path),
         KerasContent(run, "model"))

\* predictor.save: the metadata record to f"{path}_metadata.json"
SaveMetadata ==
    Step("save_metadata", "save_params", MetadataFile(run.model_path),
         MetadataContent(run))

\* processor.save_params(f"{model_path}_processor.json")
SaveParams ==
    Step("save_params", "open_results", ProcessorFile(run.model_path),
         ProcessorContent(run))

\* the metrics, then open(f"{model_path}_results.json", 'w')
OpenResults ==
    Step("open_results", "dump_results", ResultsFile(run.model_path), EmptyFile(run))

\* json.dump(results, f); return results
DumpResults ==
    /\ run.pc = "dump_results"
    /\ files' = Write(files, ResultsFile(run.model_path), ResultsContent(run))
    /\ ret' = TrainReturn(run.caller,
                  [op |-> "train", model_type |-> run.model_type, horizon |-> run.horizon,
                   status |-> "ok", results |-> ResultsContent(run)])
    /\ run' = Idle
    /\ UNCHANGED <<clock, nRuns, nRaised>>
    /\ UNCHANGED <<windowVars, procVars, serviceVars>>

\* any statement of train() after the version raising: the run ends where it
\* is and what it has written stays
TrainRaise ==
    /\ run.pc # "idle"
    /\ nRaised < MaxRaised
    /\ nRaised' = nRaised + 1
    /\ ret' = TrainReturn(run.caller,
                  [op |-> "train", model_type |-> run.model_type, horizon |-> run.horizon,
                   status |-> "raised", at |-> run.pc])
    /\ run' = Idle
    /\ UNCHANGED <<files, clock, nRuns>>
    /\ UNCHANGED <<windowVars, procVars, serviceVars>>

(***************************************************************************)
(* main.train_model, the training entry point of the command line.  It     *)
(* writes under the same names as ModelTrainer.train, in the same order,   *)
(* so a run it starts goes on with the steps above.                        *)
(***************************************************************************)
\* FEATURE_CONFIGS, for the model type of this model that it has
FeatureConfigs ==
    [t \in {<<"height">>} |->
        [features |-> <<"height", "temperature", "humidity", "pressure">>,
         target |-> "height", data_type |-> "plant"]]

\* the least number of training windows main.train_model goes on with
MainMinSamples == 20

\* sequence_length = 24 / 48; prediction_steps = 12 / 24
MainSequenceLength(horizon) == IF horizon = "short" THEN 24 ELSE 48
MainPredictionSteps(horizon) == IF horizon = "short" THEN 12 ELSE 24

\* predictor = LSTMPredictor(..); predictor.prediction_steps = prediction_steps
MainPredictor(horizon) ==
    [LSTMPredictorInit(MainSequenceLength(horizon), horizon)
        EXCEPT !.prediction_steps = MainPredictionSteps(horizon)]

MainRun(id, model_type, horizon, now, n_windows) ==
    [pc |-> "fit", id |-> id, model_type |-> model_type, horizon |-> horizon,
     caller |-> "main",
     config |-> FeatureConfigs[model_type],
     sequence_length |-> MainSequenceLength(horizon),
     prediction_steps |-> MainPredictionSteps(horizon),
     predictor |-> MainPredictor(horizon),
     windows |-> n_windows,
     version |-> StrfTime(now),
     model_path |-> ModelPath(model_type, horizon, StrfTime(now))]

MainRaised(model_type, horizon, at) ==
    [op |-> "main.train_model", model_type |-> model_type, horizon |-> horizon,
     status |-> "raised", at |-> at]

\* main.train_model up to the version: the ValueError for a model type
\* FEATURE_CONFIGS does not have or for fewer than 20 training windows, else
\* the version string
MainTrainModel(model_type, horizon, now, n_windows) ==
    /\ run.pc = "idle"
    /\ IF model_type \notin DOMAIN FeatureConfigs
       THEN /\ ret' = MainRaised(model_type, horizon, "config")
            /\ UNCHANGED <<files, clock, run, nRuns, nRaised>>
       ELSE IF n_windows < MainMinSamples
       THEN /\ ret' = MainRaised(model_type, horizon, "data")
            /\ UNCHANGED <<files, clock, run, nRuns, nRaised>>
       ELSE /\ nRuns < MaxRuns
            /\ nRuns' = nRuns + 1
            /\ clock' = now
            /\ run' = MainRun(nRuns + 1, model_type, horizon, now, n_windows)
            /\ ret' = NoRet
            /\ UNCHANGED <<files, nRaised>>
    /\ UNCHANGED <<windowVars, procVars, serviceVars>>

(***************************************************************************)
(* api.train.handler: the request is validated, then handed to train_model *)
(***************************************************************************)
\* the least number of readings handler goes on with
MinReadings == 100

\* only the request without readings is turned down
RejectsEmpty(n_readings) == n_readings = 0

\* if not readings: ..; if len(readings) < 100: ..
HandlerRejects(n_readings) == n_readings = 0 \/ n_readings < MinReadings

HandlerError(n_readings) ==
    IF n_readings = 0 THEN "No readings provided for training"
    ELSE "Not enough training data"

\* handler on a request with n_readings readings that prepare into n_windows
\* windows; a request that passes goes into train_model, which ends with the
\* run it starts
Handler(n_readings, model_type, horizon, now, n_windows) ==
    IF HandlerRejects(n_readings)
    THEN /\ ret' = [op |-> "handler", n_readings |-> n_readings,
                    success |-> FALSE, error |-> HandlerError(n_readings)]
         /\ UNCHANGED <<files, clock, run, nRuns, nRaised>>
         /\ UNCHANGED <<windowVars, procVars, serviceVars>>
    ELSE \/ TrainBegin(model_type, horizon, now, n_windows, "train_model")
         \/ TrainRejected(model_type, horizon, n_windows, "train_model")

(***************************************************************************)
(* Readers; they may run while a training run is between two writes.       *)
(***************************************************************************)
LoadLatestModelCall(model_type, horizon) ==
    /\ ret' = LoadLatestModel(files, model_type, horizon)
    /\ UNCHANGED <<files, clock, run, nRuns, nRaised>>
    /\ UNCHANGED <<windowVars, procVars, serviceVars>>

GetModelInfoCall(model_type, horizon) ==
    /\ ret' = GetModelInfo(files, model_type, horizon)
    /\ UNCHANGED <<files, clock, run, nRuns, nRaised>>
    /\ UNCHANGED <<windowVars, procVars, serviceVars>>

(***************************************************************************)
(* DataProcessor.generate_future_timestamps.  A datetime is a number of    *)
(* minutes; isoformat() writes it in fields of fixed width, kept here as   *)
(* <<day, hour, minute>>, so strings compare as their fields do.           *)
(***************************************************************************)
IsoFormat(t) == <<t \div 1440, (t % 1440) \div 60, t % 60>>

\* steps = 24 / steps = 7
ForecastSteps(horizon) == IF horizon = "short" THEN 24 ELSE 7

\* the step of freq_minutes for either horizon
MinutesDelta(horizon, freq_minutes) == freq_minutes

\* timedelta(minutes=freq_minutes) / timedelta(days=1), in minutes
TimestampDelta(horizon, freq_minutes) ==
    IF horizon = "short" THEN freq_minutes ELSE 1440

\* for _ in range(steps): current = current + delta; append(isoformat)
RECURSIVE FutureTimestamps(_, _, _)
FutureTimestamps(current, delta, steps) ==
    IF steps = 0 THEN <<>>
    ELSE <<IsoFormat(current + delta)>> \o FutureTimestamps(current + delta, delta, steps - 1)

GenerateFutureTimestamps(last_timestamp, horizon, freq_minutes) ==
    FutureTimestamps(last_timestamp, TimestampDelta(horizon, freq_minutes),
                     ForecastSteps(horizon))

GenerateFutureTimestampsCall ==
    /\ arg.op = "generate_future_timestamps"
    /\ out' = [op |-> "generate_future_timestamps",
               last_timestamp |-> arg.last_timestamp, horizon |-> arg.horizon,
               freq_minutes |-> arg.freq_minutes,
               result |-> GenerateFutureTimestamps(arg.last_timestamp, arg.horizon,
                                                   arg.freq_minutes)]
    /\ UNCHANGED <<readings, proc, record>>
    /\ UNCHANGED <<lifecycleVars, windowVars, serviceVars>>

(***************************************************************************)
(* LSTMPredictor._estimate_confidence.  input_std is np.std(X): a number   *)
(* that is not negative, inf, or nan when X holds a nan or an inf.         *)
(***************************************************************************)
\* min(a, b) and max(a, b) of Python: the first argument unless the second
\* compares smaller (greater); every comparison with nan is false
PyMin(a, b) == IF FLess(b, a) THEN b ELSE a
PyMax(a, b) == IF FLess(a, b) THEN b ELSE a

\* step_confidence = base_confidence * (1 - (i * 0.02))
StepConfidence(base_confidence, i) ==
    FMul(base_confidence, FSub(Float(1, 1), FMul(Float(i, 1), Float(1, 50))))

\* base_confidence = 0.95 - (input_std * 0.1)
BaseConfidence(input_std) == FSub(Float(19, 20), FMul(input_std, Float(1, 10)))

\* model is None: [0.5] * prediction_steps; else the loop over
\* range(prediction_steps) with max(0.5, min(0.99, step_confidence))
EstimateConfidence(model, input_std, prediction_steps) ==
    IF model = "None" THEN [k \in 1..prediction_steps |-> Float(1, 2)]
    ELSE [k \in 1..prediction_steps |->
             PyMax(Float(1, 2),
                   PyMin(Float(99, 100),
                         StepConfidence(BaseConfidence(input_std), k - 1)))]

EstimateConfidenceCall ==
    /\ arg.op = "_estimate_confidence"
    /\ out' = [op |-> "_estimate_confidence", model |-> arg.model,
               input_std |-> arg.input_std, prediction_steps |-> arg.prediction_steps,
               result |-> EstimateConfidence(arg.model, arg.input_std,
                                             arg.prediction_steps)]
    /\ UNCHANGED <<readings, proc, record>>
    /\ UNCHANGED <<lifecycleVars, windowVars, serviceVars>>

(***************************************************************************)
(* api.predict.predict.  n_rows is the number of rows of the frame the     *)
(* readings are prepared into; failing names the later step, if any, that  *)
(* raises on these readings.                                               *)
(***************************************************************************)
ApiRaised(exception) == [status |-> "raised", exception |-> exception]
ApiReturn(value) == [status |-> "return", value |-> value]

\* round(x, ndigits) of a positive number, scale being 10 ** ndigits
Round(x, scale) == Float((2 * x[1] * scale + x[2]) \div (2 * x[2]), scale)

\* predictor.predict(X, return_confidence=True) of a loaded predictor: the
\* network gives one value for each of its outputs (the k-th is kept as k),
\* _estimate_confidence one for each of self.prediction_steps, which load()
\* took from the metadata
PredictorPredict(predictor, input_std) ==
    [predictions |-> [k \in 1..predictor.model.outputs |-> k],
     confidence |-> EstimateConfidence("loaded", input_std,
                                       predictor.metadata.prediction_steps)]

\* [{..} for ts, val, conf in zip(timestamps, predictions_original,
\* result['confidence'])]: zip stops with the shortest of the three
PredictedValues(timestamps, predictions, confidence) ==
    [k \in 1..Min(Len(timestamps), Min(Len(predictions), Len(confidence))) |->
        [timestamp |-> timestamps[k],
         value |-> [output |-> predictions[k]],
         confidence |-> Round(confidence[k], 1000)]]

\* the body of the try; the frame of the readings ends at minute 0 and the
\* window taken from it has the spread 0.1
PredictTry(fs, model_type, horizon, n_rows, failing) ==
    LET load == LoadLatestModel(fs, model_type, horizon)
        model_info == GetModelInfo(fs, model_type, horizon).result
    IN IF load.status # "ok" THEN ApiRaised(load.status)
       ELSE IF failing = "prepare_dataframe" THEN ApiRaised("Exception")
       ELSE IF n_rows < load.processor.sequence_length
       THEN ApiReturn([success |-> FALSE, error |-> "Not enough data"])
       ELSE IF failing = "predict" THEN ApiRaised("Exception")
       ELSE LET result == PredictorPredict(load.predictor, Float(1, 10))
                timestamps ==
                    GenerateFutureTimestamps(0, horizon,
                                             IF horizon = "short" THEN 60 ELSE 1440)
            IN ApiReturn([success |-> TRUE,
                          model_type |-> model_type,
                          prediction_horizon |-> horizon,
                          model_version |-> IF model_info.status = "value"
                                            THEN model_info.value.version ELSE <<>>,
                          predicted_values |->
                              PredictedValues(timestamps, result.predictions,
                                              result.confidence),
                          model_metrics |-> IF model_info.status = "value"
                                            THEN model_info.value.evaluation
                                            ELSE "None"])

\* no except clause
PropagateExceptions(r) == r

\* except FileNotFoundError / except Exception
PredictExcept(r) ==
    IF r.status = "return" THEN r
    ELSE IF r.exception = "FileNotFoundError"
    THEN ApiReturn([success |-> FALSE, error |-> "Model not found",
                    suggestion |-> "Please train the model first"])
    ELSE ApiReturn([success |-> FALSE, error |-> r.exception])

Predict(fs, model_type, horizon, n_rows, failing) ==
    [op |-> "predict", model_type |-> model_type, horizon |-> horizon,
     n_rows |-> n_rows, failing |-> failing,
     outcome |-> PredictExcept(PredictTry(fs, model_type, horizon, n_rows, failing))]

PredictCall(model_type, horizon, n_rows, failing) ==
    /\ ret' = Predict(files, model_type, horizon, n_rows, failing)
    /\ UNCHANGED <<files, clock, run, nRuns, nRaised>>
    /\ UNCHANGED <<windowVars, procVars, serviceVars>>

(***************************************************************************)
(* DataProcessor.create_sequences                                          *)
(***************************************************************************)
\* seq[a:b] for 0 <= a: Python clips the slice to the sequence
Slice(seq, a, b) == SubSeq(seq, a + 1, Min(b, Len(seq)))

\* the target read from column 0 whatever target_idx is
ColumnFirst(rows, target_idx) == [k \in 1..Len(rows) |-> rows[k][1]]

\* data[a:b, target_idx]
Column(rows, target_idx) == [k \in 1..Len(rows) |-> rows[k][target_idx + 1]]

\* the range without its + 1
WindowRangeShort(d, S, P) == Len(d) - S - P

\* len(data) - self.sequence_length - self.prediction_steps + 1
WindowRange(d, S, P) == Len(d) - S - P + 1

\* for i in range(n): X.append(..); y.append(..)
RECURSIVE SequencesLoop(_, _, _, _, _, _, _, _)
SequencesLoop(d, S, P, target_idx, i, n, accX, accY) ==
    IF i >= n THEN [X |-> accX, y |-> accY]
    ELSE SequencesLoop(d, S, P, target_idx, i + 1, n,
                       Append(accX, Slice(d, i, i + S)),
                       Append(accY, Column(Slice(d, i + S, i + S + P), target_idx)))

CreateSequences(d, S, P, target_idx) ==
    SequencesLoop(d, S, P, target_idx, 0, WindowRange(d, S, P), <<>>, <<>>)

CreateSequencesCall ==
    /\ wpc = "ready"
    /\ X' = CreateSequences(data, seqLen, predSteps, targetIdx).X
    /\ y' = CreateSequences(data, seqLen, predSteps, targetIdx).y
    /\ wpc' = "returned"
    /\ UNCHANGED <<data, seqLen, predSteps, targetIdx>>
    /\ UNCHANGED <<lifecycleVars, procVars, serviceVars>>

(***************************************************************************)
(* DataProcessor.prepare_dataframe.  A reading is a timestamp and one raw  *)
(* cell for every feature column; a frame is a sequence of rows            *)
(* [ts, cells] in index order.                                             *)
(***************************************************************************)
\* pd.to_numeric(df[col], errors='coerce')
ToNumeric(cell) == IF cell.kind = "number" THEN Float(cell.v, 1) ELSE NaN

ToNumericFrame(rs) ==
    [k \in 1..Len(rs) |->
        [ts |-> rs[k].ts,
         cells |-> [c \in 1..Len(rs[k].cells) |-> ToNumeric(rs[k].cells[c])]]]

IndexOrders(n) == {p \in [1..n -> 1..n] : \A i, j \in 1..n : p[i] = p[j] => i = j}

\* the index is left in arrival order
ArrivalOrder(rs) == {[k \in 1..Len(rs) |-> k]}

\* df.sort_index(): the rows in non-decreasing index order; the default sort
\* is not stable, so rows with equal timestamps come in any order
SortedOrders(rs) ==
    {p \in IndexOrders(Len(rs)) :
        \A i, j \in 1..Len(rs) : i < j => rs[p[i]].ts <= rs[p[j]].ts}

SortIndex(rs, p) == [k \in 1..Len(rs) |-> rs[p[k]]]

ColumnValues(df, c) == [k \in 1..Len(df) |-> df[k].cells[c]]

\* df.resample(freq).mean(): one row for every interval of width W from the
\* first row's interval to the last row's, holding the mean of its rows
Resample(df, W) ==
    LET lo == df[1].ts \div W
        hi == df[Len(df)].ts \div W
        Group(k) == LET InBin(r) == r.ts \div W = k IN SelectSeq(df, InBin)
    IN [k \in 1..(hi - lo + 1) |->
           [ts |-> (lo + k - 1) * W,
            cells |-> [c \in 1..Len(df[1].cells) |->
                          Mean(ColumnValues(Group(lo + k - 1), c))]]]

\* no forward fill
NoFFillAt(col, k) == col[k]

\* .ffill(): a missing cell takes the last valid value above it
RECURSIVE FFillAt(_, _)
FFillAt(col, k) ==
    IF NotNaN(col[k]) \/ k = 1 THEN col[k] ELSE FFillAt(col, k - 1)

\* .bfill(): a missing cell takes the next valid value below it
RECURSIVE BFillAt(_, _)
BFillAt(col, k) ==
    IF NotNaN(col[k]) \/ k = Len(col) THEN col[k] ELSE BFillAt(col, k + 1)

FFill(df) ==
    [k \in 1..Len(df) |->
        [ts |-> df[k].ts,
         cells |-> [c \in 1..Len(df[k].cells) |-> FFillAt(ColumnValues(df, c), k)]]]

BFill(df) ==
    [k \in 1..Len(df) |->
        [ts |-> df[k].ts,
         cells |-> [c \in 1..Len(df[k].cells) |-> BFillAt(ColumnValues(df, c), k)]]]

\* the frame before the fill: sorted, numeric, resampled when a frequency
\* is given (W = 0 stands for resample_freq=None)
Resampled(rs, order, W) ==
    LET numeric == ToNumericFrame(SortIndex(rs, order))
    IN IF W # 0 THEN Resample(numeric, W) ELSE numeric

PrepareDataframe(rs, order, W) == BFill(FFill(Resampled(rs, order, W)))

NoOut == [op |-> "none"]

PrepareDataframeCall(W) ==
    /\ out = NoOut
    /\ Len(readings) > 0
    /\ \E order \in SortedOrders(readings) :
           out' = [op |-> "prepare_dataframe",
                   resample_freq |-> W,
                   resampled |-> Resampled(readings, order, W),
                   df |-> PrepareDataframe(readings, order, W)]
    /\ UNCHANGED <<readings, proc, record>>
    /\ UNCHANGED <<lifecycleVars, windowVars, serviceVars>>

(***************************************************************************)
(* The scalers of DataProcessor.  A scaler is the attributes the code      *)
(* reads and writes: data_min_, data_max_, scale_, min_ (one value for     *)
(* every column) and n_features_in_, which only MinMaxScaler.fit sets      *)
(* (0 stands for the attribute being absent).                              *)
(***************************************************************************)
NoScaler ==
    [data_min_ |-> <<>>, data_max_ |-> <<>>, scale_ |-> <<>>, min_ |-> <<>>,
     n_features_in_ |-> 0]

Range(s) == {s[k] : k \in 1..Len(s)}

RowsColumn(rows, c) == [k \in 1..Len(rows) |-> rows[k][c]]

\* np.nanmin / np.nanmax of a column; nan when no value is valid
NanMin(col) ==
    LET valid == Range(SelectSeq(col, NotNaN))
    IN IF valid = {} THEN NaN ELSE CHOOSE v \in valid : \A w \in valid : ~FLess(w, v)

NanMax(col) ==
    LET valid == Range(SelectSeq(col, NotNaN))
    IN IF valid = {} THEN NaN ELSE CHOOSE v \in valid : \A w \in valid : ~FLess(v, w)

\* MinMaxScaler.fit divides by the data range with a zero range replaced
\* by 1, so a constant column has scale_ 1
HandleZerosInScale(r) == IF r = Float(0, 1) THEN Float(1, 1) ELSE r

\* MinMaxScaler(feature_range=(0, 1)).fit(values); nf is the number of
\* columns of values
MinMaxScalerFit(rows, nf) ==
    LET dmin == [c \in 1..nf |-> NanMin(RowsColumn(rows, c))]
        dmax == [c \in 1..nf |-> NanMax(RowsColumn(rows, c))]
        scale == [c \in 1..nf |-> FInv(HandleZerosInScale(FSub(dmax[c], dmin[c])))]
    IN [data_min_ |-> dmin,
        data_max_ |-> dmax,
        scale_ |-> scale,
        min_ |-> [c \in 1..nf |-> FSub(Float(0, 1), FMul(dmin[c], scale[c]))],
        n_features_in_ |-> nf]

Raised(exception, where) == [status |-> exception, at |-> where]
Returned(v) == [status |-> "ok", value |-> v]

\* MinMaxScaler.transform(values): X * scale_ + min_.  A scaler without
\* fitted attributes is refused, the input is validated (at least one row;
\* as many columns as n_features_in_ when the scaler has that attribute)
\* and the product follows numpy broadcasting.
MinMaxScalerTransform(sc, rows, nf) ==
    LET m == Len(sc.scale_)
        At(c, w) == IF w = 1 THEN 1 ELSE c
    IN IF m = 0 THEN Raised("NotFittedError", "check_is_fitted")
       ELSE IF Len(rows) = 0 THEN Raised("ValueError", "no_samples")
       ELSE IF sc.n_features_in_ # 0 /\ sc.n_features_in_ # nf
       THEN Raised("ValueError", "n_features")
       ELSE IF nf # m /\ nf # 1 /\ m # 1 THEN Raised("ValueError", "broadcast")
       ELSE Returned([k \in 1..Len(rows) |->
                [c \in 1..Max(nf, m) |->
                    FAdd(FMul(rows[k][At(c, nf)], sc.scale_[At(c, m)]),
                         sc.min_[At(c, m)])]])

\* DataProcessor.__init__; feature_columns is kept as the number of
\* columns, the target column is the first of them
NewProcessor(sequence_length, prediction_steps, feature_columns) ==
    [sequence_length |-> sequence_length,
     prediction_steps |-> prediction_steps,
     feature_columns |-> feature_columns,
     target_column |-> 1,
     scaler |-> NoScaler,
     target_scaler |-> NoScaler,
     is_fitted |-> FALSE]

\* df[self.feature_columns].values
FrameValues(df) == [k \in 1..Len(df) |-> df[k].cells]

\* DataProcessor.fit(df), values being df[self.feature_columns].values
ProcessorFit(self, values) ==
    [self EXCEPT
        !.scaler = MinMaxScalerFit(values, self.feature_columns),
        !.target_scaler =
            MinMaxScalerFit([k \in 1..Len(values) |-> <<values[k][self.target_column]>>], 1),
        !.is_fitted = TRUE]

\* transform without the guard
NoFittedGuard(self) == FALSE

\* if not self.is_fitted: raise ValueError("Scaler not fitted. Call fit() first.")
NotFittedGuard(self) == ~self.is_fitted

\* DataProcessor.transform(df)
ProcessorTransform(self, values) ==
    IF NotFittedGuard(self) THEN Raised("ValueError", "not_fitted")
    ELSE MinMaxScalerTransform(self.scaler, values, self.feature_columns)

\* json.dump / json.load of a float: finite numbers are written by repr,
\* which reads back to the same number; nan and the infinities are written
\* as the literals NaN, Infinity and -Infinity
JsonDumpFloat(x) ==
    IF x = NaN THEN [lit |-> "NaN", n |-> 0, d |-> 1]
    ELSE IF x[2] = 0 THEN [lit |-> IF x[1] > 0 THEN "Infinity" ELSE "-Infinity", n |-> 0, d |-> 1]
    ELSE [lit |-> "repr", n |-> x[1], d |-> x[2]]

JsonLoadFloat(j) ==
    CASE j.lit = "NaN" -> NaN
      [] j.lit = "Infinity" -> <<1, 0>>
      [] j.lit = "-Infinity" -> <<-1, 0>>
      [] OTHER -> Float(j.n, j.d)

JsonDumpList(v) == [c \in 1..Len(v) |-> JsonDumpFloat(v[c])]
JsonLoadList(j) == [c \in 1..Len(j) |-> JsonLoadFloat(j[c])]

\* a JSON value that is null or a list
JsonNull == [null |-> TRUE, list |-> <<>>]
JsonList(v) == [null |-> FALSE, list |-> JsonDumpList(v)]

\* DataProcessor.save_params: the text written to the file
SaveParamsText(self) ==
    [sequence_length |-> self.sequence_length,
     prediction_steps |-> self.prediction_steps,
     feature_columns |-> self.feature_columns,
     target_column |-> self.target_column,
     scaler_min |-> IF self.is_fitted THEN JsonList(self.scaler.data_min_) ELSE JsonNull,
     scaler_max |-> IF self.is_fitted THEN JsonList(self.scaler.data_max_) ELSE JsonNull,
     target_scaler_min |->
         IF self.is_fitted THEN JsonList(self.target_scaler.data_min_) ELSE JsonNull,
     target_scaler_max |->
         IF self.is_fitted THEN JsonList(self.target_scaler.data_max_) ELSE JsonNull]

\* the scaler attributes load_params assigns; n_features_in_ is not one of
\* them and keeps what the scaler object had
LoadedScaler(old, jmin, jmax) ==
    LET dmin == JsonLoadList(jmin.list)
        dmax == JsonLoadList(jmax.list)
        scale == [c \in 1..Len(dmin) |-> FInv(FSub(dmax[c], dmin[c]))]
    IN [data_min_ |-> dmin,
        data_max_ |-> dmax,
        scale_ |-> scale,
        min_ |-> [c \in 1..Len(dmin) |-> FMul(FNeg(dmin[c]), scale[c])],
        n_features_in_ |-> old.n_features_in_]

\* DataProcessor.load_params, params being the parsed file
ProcessorLoad(self, params) ==
    LET config == [self EXCEPT
                      !.sequence_length = params.sequence_length,
                      !.prediction_steps = params.prediction_steps,
                      !.feature_columns = params.feature_columns,
                      !.target_column = params.target_column]
    IN IF ~params.scaler_min.null
       THEN [config EXCEPT
                !.scaler = LoadedScaler(self.scaler, params.scaler_min, params.scaler_max),
                !.target_scaler = LoadedScaler(self.target_scaler,
                                               params.target_scaler_min,
                                               params.target_scaler_max),
                !.is_fitted = TRUE]
       ELSE config

(***************************************************************************)
(* Calls on a DataProcessor object.  Beside the object (self), proc keeps  *)
(* what was done to it since its construction:                             *)
(*   "new"          nothing                                                *)
(*   "config"       only load_params of files without scaler vectors       *)
(*   "loaded_fresh" one load_params of a file with scaler vectors, as the  *)
(*                  first call                                             *)
(*   "other"        anything else                                          *)
(* and, for a loaded object, the object that wrote the file (source).      *)
(***************************************************************************)
Constructed(self) == [self |-> self, history |-> "new", source |-> self]

NoRecord == [exists |-> FALSE]

NewProcessorCall(sequence_length, prediction_steps, feature_columns) ==
    /\ proc' = Constructed(NewProcessor(sequence_length, prediction_steps, feature_columns))
    /\ out' = [op |-> "__init__"]
    /\ UNCHANGED <<readings, record>>
    /\ UNCHANGED <<lifecycleVars, windowVars, serviceVars>>

FitCall(values) ==
    /\ Len(values) > 0
    /\ Len(values[1]) = proc.self.feature_columns
    /\ proc' = [proc EXCEPT !.self = ProcessorFit(proc.self, values), !.history = "other"]
    /\ out' = [op |-> "fit"]
    /\ UNCHANGED <<readings, record>>
    /\ UNCHANGED <<lifecycleVars, windowVars, serviceVars>>

TransformCall(values) ==
    /\ Len(values) > 0
    /\ Len(values[1]) = proc.self.feature_columns
    /\ out' = [op |-> "transform",
               input |-> values,
               result |-> ProcessorTransform(proc.self, values)]
    /\ UNCHANGED <<readings, proc, record>>
    /\ UNCHANGED <<lifecycleVars, windowVars, serviceVars>>

SaveParamsCall ==
    /\ record' = [exists |-> TRUE, params |-> SaveParamsText(proc.self), saved_by |-> proc.self]
    /\ out' = [op |-> "save_params"]
    /\ UNCHANGED <<readings, proc>>
    /\ UNCHANGED <<lifecycleVars, windowVars, serviceVars>>

LoadParamsCall ==
    /\ IF ~record.exists
       THEN /\ out' = [op |-> "load_params", result |-> Raised("FileNotFoundError", "open")]
            /\ proc' = proc
       ELSE /\ out' = [op |-> "load_params", result |-> Returned(record.params)]
            /\ proc' =
                 IF ~record.params.scaler_min.null
                 THEN [self |-> ProcessorLoad(proc.self, record.params),
                       history |-> IF proc.history = "new" THEN "loaded_fresh" ELSE "other",
                       source |-> record.saved_by]
                 ELSE [proc EXCEPT
                          !.self = ProcessorLoad(proc.self, record.params),
                          !.history = IF proc.history \in {"new", "config"}
                                      THEN "config" ELSE "other"]
    /\ UNCHANGED <<readings, record>>
    /\ UNCHANGED <<lifecycleVars, windowVars, serviceVars>>

(***************************************************************************)
(* DataProcessor.create_inference_sequence.                                *)
(***************************************************************************)
\* df.tail(n): the last n rows, all rows when there are fewer
TailRows(rows, n) == SubSeq(rows, Max(Len(rows) - n, 0) + 1, Len(rows))

RECURSIVE Flatten(_)
Flatten(rows) == IF Len(rows) = 0 THEN <<>> ELSE Head(rows) \o Flatten(Tail(rows))

\* scaled_data.reshape(1, n, -1): the values in row-major order cut into n
\* rows of equal width; refused when n does not divide their number
Reshape(rows, n) ==
    LET flat == Flatten(rows)
        w == Len(flat) \div n
    IN IF Len(flat) % n # 0 THEN Raised("ValueError", "reshape")
       ELSE Returned(<<[i \in 1..n |-> SubSeq(flat, (i - 1) * w + 1, i * w)]>>)

\* create_inference_sequence(df) with last_n=None, values being the rows
\* of df
CreateInferenceSequence(self, values) ==
    LET n == self.sequence_length
        scaled_data == ProcessorTransform(self, TailRows(values, n))
    IN IF scaled_data.status # "ok" THEN scaled_data
       ELSE Reshape(scaled_data.value, n)

AsFloats(table) ==
    [k \in 1..Len(table) |-> [c \in 1..Len(table[k]) |-> Float(table[k][c], 1)]]

CreateInferenceSequenceCall ==
    /\ out' = [op |-> "create_inference_sequence",
               result |-> CreateInferenceSequence(proc.self, AsFloats(data))]
    /\ UNCHANGED <<readings, proc, record>>
    /\ UNCHANGED <<lifecycleVars, windowVars, serviceVars>>

(***************************************************************************)
(* prepare_training_data: a processor is made, the readings are prepared,  *)
(* scaled by a scaler fitted on them, cut into windows, and the windows    *)
(* are split by index.                                                     *)
(***************************************************************************)
\* X[:split_idx]
TrainPart(seq, split_idx) == Slice(seq, 0, split_idx)

\* the window at split_idx is dropped
TestPartSkipping(seq, split_idx) == Slice(seq, split_idx + 1, Len(seq))

\* X[split_idx:]
TestPart(seq, split_idx) == Slice(seq, split_idx, Len(seq))

\* the split of prepare_training_data, applied to what create_sequences
\* returned
SplitCall(test_split) ==
    /\ wpc = "returned"
    /\ LET split_idx == SplitIdx(Len(X), test_split)
       IN out' = [op |-> "split",
                  test_split |-> test_split,
                  X_train |-> TrainPart(X, split_idx),
                  X_test |-> TestPart(X, split_idx),
                  y_train |-> TrainPart(y, split_idx),
                  y_test |-> TestPart(y, split_idx)]
    /\ wpc' = "split"
    /\ UNCHANGED <<data, seqLen, predSteps, targetIdx, X, y>>
    /\ UNCHANGED <<readings, proc, record>>
    /\ UNCHANGED <<lifecycleVars, serviceVars>>

PrepareTrainingData(rs, order, sequence_length, prediction_steps, test_split, W) ==
    LET processor == NewProcessor(sequence_length, prediction_steps, Len(rs[1].cells))
        df == PrepareDataframe(rs, order, W)
        fitted == ProcessorFit(processor, FrameValues(df))
        scaled_data == ProcessorTransform(fitted, FrameValues(df)).value
        target_idx == fitted.target_column - 1
        XY == CreateSequences(scaled_data, sequence_length, prediction_steps, target_idx)
        split_idx == SplitIdx(Len(XY.X), test_split)
    IN [op |-> "prepare_training_data",
        status |-> "ok",
        df |-> df,
        X_train |-> TrainPart(XY.X, split_idx),
        X_test |-> TestPart(XY.X, split_idx),
        y_train |-> TrainPart(XY.y, split_idx),
        y_test |-> TestPart(XY.y, split_idx),
        processor |-> fitted]

PrepareTrainingDataCall(sequence_length, prediction_steps, test_split, W) ==
    /\ out = NoOut
    /\ Len(readings) > 0
    /\ \E order \in SortedOrders(readings) :
           out' = PrepareTrainingData(readings, order, sequence_length, prediction_steps,
                                      test_split, W)
    /\ UNCHANGED <<readings, proc, record>>
    /\ UNCHANGED <<lifecycleVars, windowVars, serviceVars>>

(***************************************************************************)
(* validate.find_latest_model.  st_mtime is the time of the last write of  *)
(* a file.  The runs that write the files of one model type and horizon    *)
(* follow one another and each run writes only the regressor file of its   *)
(* own version, so a file last written by a later run has the later        *)
(* st_mtime: st_mtime is kept as the number of the run that wrote last.    *)
(***************************************************************************)
MTime(fs, f) == fs[f].by

\* models_path.glob(f"{model_type}_{horizon}_*.keras")
GlobKeras(fs, model_type, horizon) ==
    {f \in ListDir(fs) :
        StartsWith(f, Pattern(model_type, horizon)) /\ EndsWith(f, ".keras")}

\* the file written first
OldestFirst(fs, keras_files) ==
    CHOOSE f \in keras_files : \A g \in keras_files : MTime(fs, f) <= MTime(fs, g)

\* keras_files.sort(key=st_mtime, reverse=True); keras_files[0]
NewestFirst(fs, keras_files) ==
    CHOOSE f \in keras_files : \A g \in keras_files : MTime(fs, g) <= MTime(fs, f)

FindLatestModel(fs, model_type, horizon) ==
    IF GlobKeras(fs, model_type, horizon) = {}
    THEN [status |-> "None"]
    ELSE [status |-> "value",
          value |-> PathOf(NewestFirst(fs, GlobKeras(fs, model_type, horizon)))]

FindLatestModelCall(model_type, horizon) ==
    /\ ret' = [op |-> "find_latest_model", model_type |-> model_type,
               horizon |-> horizon,
               result |-> FindLatestModel(files, model_type, horizon)]
    /\ UNCHANGED <<files, clock, run, nRuns, nRaised>>
    /\ UNCHANGED <<windowVars, procVars, serviceVars>>

(***************************************************************************)
(* utils/db.py: the ml_models table.  A row keeps the columns the three    *)
(* operations compare or return (model_type, model_version, is_active);    *)
(* its id is its position in the table.  Each operation commits once, so   *)
(* it is one step.                                                         *)
(***************************************************************************)
\* INSERT INTO ml_models (...) VALUES (..., false)
NewModelRow(model_type, model_version) ==
    [model_type |-> model_type, model_version |-> model_version, is_active |-> FALSE]

SaveModelMetadata(reg, model_type, model_version) ==
    Append(reg, NewModelRow(model_type, model_version))

\* UPDATE ml_models SET is_active = false WHERE model_type = %s
Deactivate(reg, model_type) ==
    [i \in DOMAIN reg |->
        IF reg[i].model_type = model_type
        THEN [reg[i] EXCEPT !.is_active = FALSE] ELSE reg[i]]

\* UPDATE ml_models SET is_active = true WHERE id = %s
Activate(reg, model_id, model_type) ==
    [i \in DOMAIN reg |->
        IF i = model_id THEN [reg[i] EXCEPT !.is_active = TRUE] ELSE reg[i]]

SetActiveModel(reg, model_id, model_type) ==
    Activate(Deactivate(reg, model_type), model_id, model_type)

\* WHERE model_type = %s AND is_active = true
ActiveRows(reg, model_type) ==
    {i \in DOMAIN reg : reg[i].model_type = model_type /\ reg[i].is_active}

SaveModelMetadataCall(model_type, model_version) ==
    /\ Len(registry) < MaxModels
    /\ registry' = SaveModelMetadata(registry, model_type, model_version)
    /\ ret' = [op |-> "save_model_metadata", model_type |-> model_type,
               result |-> Len(registry) + 1]
    /\ UNCHANGED <<files, clock, run, nRuns, nRaised, arg>>
    /\ UNCHANGED <<windowVars, procVars>>

SetActiveModelCall(model_id, model_type) ==
    /\ registry' = SetActiveModel(registry, model_id, model_type)
    /\ ret' = [op |-> "set_active_model", model_id |-> model_id,
               model_type |-> model_type]
    /\ UNCHANGED <<files, clock, run, nRuns, nRaised, arg>>
    /\ UNCHANGED <<windowVars, procVars>>

\* LIMIT 1 without ORDER BY: any of the matching rows may be the one fetched
GetActiveModelCall(model_type) ==
    /\ \/ /\ ActiveRows(registry, model_type) = {}
          /\ ret' = [op |-> "get_active_model", model_type |-> model_type,
                     result |-> [status |-> "None"]]
       \/ \E i \in ActiveRows(registry, model_type) :
              ret' = [op |-> "get_active_model", model_type |-> model_type,
                      result |-> [status |-> "value", id |-> i,
                                  model_type |-> registry[i].model_type,
                                  model_version |-> registry[i].model_version]]
    /\ UNCHANGED <<files, clock, run, nRuns, nRaised, registry, arg>>
    /\ UNCHANGED <<windowVars, procVars>>

(***************************************************************************)
(* Specifications.                                                         *)
(***************************************************************************)
FeatureCounts == {1, 2}
Values == {0, 1}

Tables(nf) == UNION {[1..L -> [1..nf -> Values]] : L \in 0..MaxRows}

InitLifecycle ==
    /\ files = <<>>
    /\ clock = ClockStart
    /\ run = Idle
    /\ nRuns = 0
    /\ nRaised = 0
    /\ ret = NoRet

InitWindowsIdle ==
    /\ data = <<>>
    /\ seqLen = 1
    /\ predSteps = 1
    /\ targetIdx = 0
    /\ X = <<>>
    /\ y = <<>>
    /\ wpc = "idle"

InitProcIdle ==
    /\ readings = <<>>
    /\ proc = Constructed(NewProcessor(1, 1, 1))
    /\ record = NoRecord
    /\ out = NoOut

NoArg == [op |-> "none"]

InitServiceIdle ==
    /\ registry = <<>>
    /\ arg = NoArg

Init == InitLifecycle /\ InitWindowsIdle /\ InitProcIdle /\ InitServiceIdle

\* the wall clock is read when a run makes its version; since the last
\* reading no second or one second has passed
\* the numbers of windows the readings of a call give
WindowCounts == {0, 9, 10, 12, 13}

TrainCalls(keys, caller) ==
    \/ \E key \in keys, now \in {clock, clock + 1}, n_windows \in WindowCounts :
           TrainBegin(key[1], key[2], now, n_windows, caller)
    \/ Fit
    \/ SaveModel
    \/ SaveMetadata
    \/ SaveParams
    \/ OpenResults
    \/ DumpResults
    \/ TrainRaise

Train == TrainCalls(Keys, "train")

Next ==
    \/ Train
    \/ \E key \in Keys : LoadLatestModelCall(key[1], key[2])

Spec == Init /\ [][Next]_vars

NextInfo ==
    \/ Train
    \/ \E key \in Keys : GetModelInfoCall(key[1], key[2])

SpecInfo == Init /\ [][NextInfo]_vars

\* training alone, also asked for a model type MODEL_CONFIGS does not have
\* and on readings that give too few windows
UnknownType == <<"plant", "moisture">>
TrainKeys == {<<<<"height">>, "short">>, <<UnknownType, "short">>}

NextTrain ==
    \/ TrainCalls(TrainKeys, "train")
    \/ \E key \in TrainKeys, n_windows \in WindowCounts :
           TrainRejected(key[1], key[2], n_windows, "train")

SpecTrain == Init /\ [][NextTrain]_vars

\* the two functions of the api: train_model runs, and predict between
\* their steps
ApiKeys == {<<<<"height">>, "short">>}
RowCounts == {7, 24}
FailingSteps == {"none", "prepare_dataframe", "predict"}

NextApi ==
    \/ TrainCalls(ApiKeys, "train_model")
    \/ \E key \in ApiKeys, n_windows \in WindowCounts :
           TrainRejected(key[1], key[2], n_windows, "train_model")
    \/ \E key \in ApiKeys, n_rows \in RowCounts, failing \in FailingSteps :
           PredictCall(key[1], key[2], n_rows, failing)

SpecApi == Init /\ [][NextApi]_vars

\* the steps of a run that has its version
TrainSteps ==
    \/ Fit
    \/ SaveModel
    \/ SaveMetadata
    \/ SaveParams
    \/ OpenResults
    \/ DumpResults
    \/ TrainRaise

\* training requests through the handler
ReadingCounts == {0, 99, 100}

NextHandler ==
    \/ \E n_readings \in ReadingCounts, key \in ApiKeys, now \in {clock, clock + 1},
          n_windows \in WindowCounts :
           Handler(n_readings, key[1], key[2], now, n_windows)
    \/ TrainSteps

SpecHandler == Init /\ [][NextHandler]_vars

\* create_sequences on every table, sequence_length, prediction_steps and
\* target_idx within the bounds
InitWindows ==
    /\ InitLifecycle
    /\ InitServiceIdle
    /\ \E nf \in FeatureCounts :
           /\ data \in Tables(nf)
           /\ targetIdx \in 0..(nf - 1)
    /\ seqLen \in 0..MaxSeqLen
    /\ predSteps \in 0..MaxPredSteps
    /\ X = <<>>
    /\ y = <<>>
    /\ wpc = "ready"
    /\ InitProcIdle

TestSplits == {Float(1, 5), Float(1, 2)}

NextWindows ==
    \/ CreateSequencesCall
    \/ \E test_split \in TestSplits : SplitCall(test_split)

SpecWindows == InitWindows /\ [][NextWindows]_vars

\* prepare_dataframe on every list of readings within the bounds, with and
\* without a resample frequency
RawCells ==
    {[kind |-> "number", v |-> 1], [kind |-> "number", v |-> 2], [kind |-> "text", v |-> 0]}
Timestamps == 0..2
Frequencies == {0, 1, 2}

ReadingLists(nf) ==
    UNION {[1..n -> [ts : Timestamps, cells : [1..nf -> RawCells]]] : n \in 1..MaxReadings}

InitFrame ==
    /\ InitLifecycle
    /\ InitServiceIdle
    /\ InitWindowsIdle
    /\ \E nf \in FeatureCounts : readings \in ReadingLists(nf)
    /\ proc = Constructed(NewProcessor(1, 1, 1))
    /\ record = NoRecord
    /\ out = NoOut

NextFrame == \E W \in Frequencies : PrepareDataframeCall(W)

SpecFrame == InitFrame /\ [][NextFrame]_vars

\* prepare_training_data on every list of readings within the bounds; the
\* first column holds two different numbers or text, the others one number
\* or text
PrepareCells(c) == IF c = 1 THEN RawCells ELSE {r \in RawCells : r.v < 2}

PrepareReadingLists(nf) ==
    UNION {[1..n -> {r \in [ts : Timestamps, cells : [1..nf -> RawCells]] :
                        \A c \in 1..nf : r.cells[c] \in PrepareCells(c)}] :
           n \in 1..MaxReadings}

InitPrepare ==
    /\ InitLifecycle
    /\ InitServiceIdle
    /\ InitWindowsIdle
    /\ \E nf \in FeatureCounts : readings \in PrepareReadingLists(nf)
    /\ proc = Constructed(NewProcessor(1, 1, 1))
    /\ record = NoRecord
    /\ out = NoOut

NextPrepare ==
    \E S \in 1..MaxSeqLen, P \in 1..MaxPredSteps, test_split \in TestSplits :
        PrepareTrainingDataCall(S, P, test_split, 1)

SpecPrepare == InitPrepare /\ [][NextPrepare]_vars

FloatValues == {Float(v, 1) : v \in Values}
FloatTables(nf, L) == [1..L -> [1..nf -> FloatValues]]

\* create_inference_sequence on every recent table within the bounds, by
\* a processor of every sequence_length, before and after it is fitted
InitInference ==
    /\ InitLifecycle
    /\ InitServiceIdle
    /\ \E nf \in FeatureCounts :
           /\ data \in Tables(nf)
           /\ seqLen \in 1..MaxSeqLen
           /\ proc = Constructed(NewProcessor(seqLen, 1, nf))
    /\ predSteps = 1
    /\ targetIdx = 0
    /\ X = <<>>
    /\ y = <<>>
    /\ wpc = "idle"
    /\ readings = <<>>
    /\ record = NoRecord
    /\ out = NoOut

NextInference ==
    \/ \E nf \in FeatureCounts : \E values \in FloatTables(nf, 2) : FitCall(values)
    \/ CreateInferenceSequenceCall

SpecInference == InitInference /\ [][NextInference]_vars

\* the calls on a DataProcessor object of one feature column, in any order
InitProcessor ==
    /\ InitLifecycle
    /\ InitServiceIdle
    /\ InitWindowsIdle
    /\ readings = <<>>
    /\ \E S \in 1..MaxSeqLen, P \in 1..MaxPredSteps :
           proc = Constructed(NewProcessor(S, P, 1))
    /\ record = NoRecord
    /\ out = NoOut

NextProcessor ==
    \/ \E S \in 1..MaxSeqLen, P \in 1..MaxPredSteps : NewProcessorCall(S, P, 1)
    \/ \E L \in {1, 2} : \E values \in FloatTables(1, L) : FitCall(values)
    \/ \E values \in FloatTables(1, 1) : TransformCall(values)
    \/ SaveParamsCall
    \/ LoadParamsCall

SpecProcessor == InitProcessor /\ [][NextProcessor]_vars

\* the forecast functions on drawn arguments: the last timestamp at the
\* start, inside and at the end of a day, the default frequency and two
\* others
LastTimestamps == {0, 59, 600, 1380, 1439}
FreqMinutes == {30, 60, 1440}

TimestampArgs ==
    {[op |-> "generate_future_timestamps", last_timestamp |-> t, horizon |-> h,
      freq_minutes |-> f] : t \in LastTimestamps, h \in Horizons, f \in FreqMinutes}

\* np.std(X): 0, values around the one where base_confidence is 0 (9.5),
\* a large one, inf and nan
InputStds ==
    {Float(0, 1), Float(1, 10), Float(1, 2), Float(9, 2), Float(19, 2), Float(10, 1),
     Float(100, 1), Float(1, 0), NaN}

\* prediction_steps of a predictor: 24 or 7 from __init__, 12 or 24 set by
\* main.train_model, what load() reads from the metadata, or what a caller
\* assigns to the attribute as main.train_model does; 50, 51 and 60 are on
\* both sides of the step where 1 - i * 0.02 reaches 0
StepCounts == {7, 12, 24, 50, 51, 60}

ConfidenceArgs ==
    {[op |-> "_estimate_confidence", model |-> m, input_std |-> s,
      prediction_steps |-> n] : m \in {"None", "loaded"}, s \in InputStds, n \in StepCounts}

InitForecast ==
    /\ InitLifecycle
    /\ InitWindowsIdle
    /\ InitProcIdle
    /\ registry = <<>>
    /\ arg \in TimestampArgs \cup ConfidenceArgs

NextForecast ==
    \/ GenerateFutureTimestampsCall
    \/ EstimateConfidenceCall

SpecForecast == InitForecast /\ [][NextForecast]_vars

\* serving beside both training entry points: runs of ModelTrainer.train
\* and of main.train_model for one model type and horizon, and predict
\* between their steps on readings that prepare into enough rows
ServeKeys == {<<<<"height">>, "medium">>}
MainWindowCounts == {19, 20}

NextServe ==
    \/ TrainCalls(ServeKeys, "train")
    \/ \E key \in ServeKeys, now \in {clock, clock + 1}, n_windows \in MainWindowCounts :
           MainTrainModel(key[1], key[2], now, n_windows)
    \/ \E key \in ServeKeys : PredictCall(key[1], key[2], 48, "none")

SpecServe == Init /\ [][NextServe]_vars

\* validation beside both training entry points; the second key shares the
\* first word of its model type with the first
ValidateKeys == {<<<<"height">>, "short">>, <<<<"height", "multivariate">>, "short">>}

NextValidate ==
    \/ TrainCalls(ValidateKeys, "train")
    \/ \E key \in ValidateKeys, now \in {clock, clock + 1}, n_windows \in MainWindowCounts :
           MainTrainModel(key[1], key[2], now, n_windows)
    \/ \E key \in ValidateKeys : FindLatestModelCall(key[1], key[2])

SpecValidate == Init /\ [][NextValidate]_vars

\* the registry operations with any arguments: model types, version strings
\* and ids of rows that exist or not
RegistryTypes == {<<"height">>, <<"height", "multivariate">>}
RegistryVersions == {<<0, 9>>, <<1, 0>>}

NextRegistry ==
    \/ \E model_type \in RegistryTypes, model_version \in RegistryVersions :
           SaveModelMetadataCall(model_type, model_version)
    \/ \E model_id \in 1..MaxModels, model_type \in RegistryTypes :
           SetActiveModelCall(model_id, model_type)
    \/ \E model_type \in RegistryTypes : GetActiveModelCall(model_type)

SpecRegistry == Init /\ [][NextRegistry]_vars

(***************************************************************************)
(* Properties.                                                             *)
(***************************************************************************)
KeyStem(r) == r.model_type \o <<r.horizon>>

\* the regressor files of exactly the key of the call r
RegressorsOf(r) ==
    {f \in ListDir(files) : f.stem = KeyStem(r) /\ f.suffix = ".keras"}

\* the results records of exactly the key of the call r
ResultsOf(r) ==
    {f \in ListDir(files) : f.stem = KeyStem(r) /\ f.suffix = "_results.json"}

VersionLeq(v, w) == ~LexLess(w, v)

Loaded == ret.op = "load_latest_model" /\ ret.status = "ok"

\* C1: whenever load_latest_model returns a (regressor, scaler) pair, the
\* scaler file was written by the same training run as the regressor file.
CoVersioning ==
    Loaded => ret.processor.by = ret.predictor.model.by

\* C2: among the regressor files of the requested {model_type, horizon},
\* load_latest_model selects the one with the lexicographically greatest
\* version, never a file of another model_type or horizon, and what it returns
\* is read from the files of that version.
VersionOrdering ==
    (ret.op = "load_latest_model" /\ RegressorsOf(ret) # {}) =>
        /\ "model_path" \in DOMAIN ret
        /\ ret.model_path.stem = KeyStem(ret)
        /\ KerasFile(ret.model_path) \in RegressorsOf(ret)
        /\ \A f \in RegressorsOf(ret) : VersionLeq(f.version, ret.model_path.version)
        /\ ret.status = "ok" =>
               /\ ret.predictor.model = files[KerasFile(ret.model_path)]
               /\ ret.processor = files[WithSuffix(ret.model_path, "_processor.json")]

\* C2 witness: a load that returned with two versions of its key in the store
VersionOrderingWitness ==
    /\ Loaded
    /\ \E f \in RegressorsOf(ret) : LexLess(f.version, ret.model_path.version)

\* C3: when a training run has made its version, no file of an earlier run is
\* stored under the same {model_type}_{horizon}_{version} prefix.
NeverOverwrite ==
    run.pc = "fit" => \A f \in ListDir(files) : PathOf(f) # run.model_path

\* a version whose training run has returned: its results record is complete
Saved(fs, model_path) ==
    /\ Exists(fs, ResultsFile(model_path))
    /\ fs[ResultsFile(model_path)].text = "json"

\* C4: no file is ever deleted, and the files of a saved version keep their
\* content.
ArtifactsImmutable ==
    [][\A f \in DOMAIN files :
          /\ f \in DOMAIN files'
          /\ Saved(files, PathOf(f)) => files'[f] = files[f]]_vars

\* C5: a load_latest_model made while a training run of the same key is in
\* progress never selects that run's version before its metadata and scaler
\* files are written.
ConsistentVisibility ==
    (/\ ret.op = "load_latest_model"
     /\ run.pc # "idle"
     /\ "model_path" \in DOMAIN ret
     /\ ret.model_path = run.model_path) =>
        /\ ReadJson(files, MetadataFile(ret.model_path)) = "ok"
        /\ ReadJson(files, WithSuffix(ret.model_path, "_processor.json")) = "ok"

\* C6: load_latest_model for a key with no regressor file in the store fails
\* with FileNotFoundError at the listing and returns no predictor or processor.
MissingModel ==
    (ret.op = "load_latest_model" /\ RegressorsOf(ret) = {}) =>
        /\ ret.status = "FileNotFoundError"
        /\ ret.at = "listing"
        /\ "predictor" \notin DOMAIN ret
        /\ "processor" \notin DOMAIN ret

\* C6 witness: load_latest_model('height', 'short') fails at the listing while
\* the store holds a regressor of 'height', 'medium'
MissingModelWitness ==
    /\ ret.op = "load_latest_model"
    /\ ret.model_type = <<"height">>
    /\ ret.horizon = "short"
    /\ ret.status = "FileNotFoundError"
    /\ ret.at = "listing"
    /\ \E f \in ListDir(files) : f.stem = <<"height", "medium">> /\ f.suffix = ".keras"

\* C7: get_model_info never raises; it returns the results record of the
\* lexicographically greatest version of its key when that record can be read,
\* and None when there is no results record of the key or reading it fails.
GetModelInfoTotal ==
    ret.op = "get_model_info" =>
        /\ ret.result.status \in {"value", "None"}
        /\ ResultsOf(ret) = {} => ret.result.status = "None"
        /\ \A f \in ResultsOf(ret) :
               (\A g \in ResultsOf(ret) : VersionLeq(g.version, f.version)) =>
                   IF files[f].text = "json"
                   THEN ret.result = [status |-> "value", value |-> files[f]]
                   ELSE ret.result.status = "None"

\* C7 witness: the newest results record of the key is not yet filled while an
\* older one is complete, and get_model_info returned None
GetModelInfoWitness ==
    /\ ret.op = "get_model_info"
    /\ ret.result.status = "None"
    /\ \E f, g \in ResultsOf(ret) :
           /\ LexLess(g.version, f.version)
           /\ files[f].text = "empty"
           /\ files[g].text = "json"

\* C8: when train returns with version v, the regressor, metadata, processor
\* and results files are all in the store under {model_type}_{horizon}_{v},
\* and the returned record's version and model_path name that prefix.
ArtifactLayout ==
    (ret.op = "train" /\ ret.status = "ok") =>
        LET prefix == ModelPath(ret.model_type, ret.horizon, ret.results.version)
        IN /\ ret.results.model_path = prefix
           /\ \A suffix \in {".keras", "_metadata.json", "_processor.json",
                            "_results.json"} :
                  Exists(files, WithSuffix(prefix, suffix))
           /\ files[WithSuffix(prefix, "_results.json")] = ret.results

\* C8 witness: a training run has returned
ArtifactLayoutWitness ==
    /\ ret.op = "train"
    /\ ret.status = "ok"
    /\ Saved(files, ret.results.model_path)

\* C9: create_sequences returns exactly max(0, L-S-P+1) input windows and as
\* many targets.
WindowCount ==
    wpc = "returned" =>
        /\ Len(X) = Max(0, Len(data) - seqLen - predSteps + 1)
        /\ Len(y) = Len(X)
        /\ Len(data) = seqLen + predSteps => Len(X) = 1
        /\ Len(data) < seqLen + predSteps => Len(X) = 0

\* C9 witness: the boundary L = S+P, one window
WindowCountWitness ==
    /\ wpc = "returned"
    /\ Len(data) = seqLen + predSteps
    /\ Len(X) = 1
    /\ Len(y) = 1

\* C10: the i-th window is rows i..i+S-1 with every feature column, the i-th
\* target rows i+S..i+S+P-1 of the target column, in increasing order of i.
WindowContent ==
    wpc = "returned" =>
        \A i \in 0..(Len(data) - seqLen - predSteps) :
            /\ i + 1 <= Len(X)
            /\ i + 1 <= Len(y)
            /\ X[i + 1] = [k \in 1..seqLen |-> data[i + k]]
            /\ y[i + 1] = [k \in 1..predSteps |-> data[i + seqLen + k][targetIdx + 1]]

\* C10 witness: two windows over two feature columns, the target in the
\* second column and differing from the first column
WindowContentWitness ==
    /\ wpc = "returned"
    /\ Len(X) >= 2
    /\ targetIdx = 1
    /\ X[1] # X[2]
    /\ \E k \in 1..Len(data) : data[k][1] # data[k][2]
    /\ y[1] # [k \in 1..predSteps |-> data[seqLen + k][1]]

ValidAbove(col, k) == {j \in 1..(k - 1) : NotNaN(col[j])}
ValidBelow(col, k) == {j \in (k + 1)..Len(col) : NotNaN(col[j])}
SetMax(S) == CHOOSE x \in S : \A z \in S : z <= x
SetMin(S) == CHOOSE x \in S : \A z \in S : x <= z

\* C16: in the frame prepare_dataframe returns, every feature column that
\* had at least one valid value before the fill has no missing cell: a
\* valid cell is unchanged, a missing cell holds the nearest valid value
\* above it or, when there is none, the nearest valid value below it.
GapFill ==
    out.op = "prepare_dataframe" =>
        /\ Len(out.df) = Len(out.resampled)
        /\ \A c \in 1..Len(out.df[1].cells) :
               LET before == ColumnValues(out.resampled, c)
                   after == ColumnValues(out.df, c)
               IN (\E k \in 1..Len(before) : NotNaN(before[k])) =>
                      \A k \in 1..Len(before) :
                          /\ NotNaN(after[k])
                          /\ NotNaN(before[k]) => after[k] = before[k]
                          /\ IsNaN(before[k]) =>
                                 after[k] =
                                     IF ValidAbove(before, k) # {}
                                     THEN before[SetMax(ValidAbove(before, k))]
                                     ELSE before[SetMin(ValidBelow(before, k))]

\* a frame in which one cell was filled from above and another from below
GapFillWitness ==
    /\ out.op = "prepare_dataframe"
    /\ \E c \in 1..Len(out.df[1].cells), k \in 1..Len(out.df) :
           /\ IsNaN(out.resampled[k].cells[c])
           /\ ValidAbove(ColumnValues(out.resampled, c), k) # {}
           /\ NotNaN(out.df[k].cells[c])
    /\ \E c \in 1..Len(out.df[1].cells), k \in 1..Len(out.df) :
           /\ IsNaN(out.resampled[k].cells[c])
           /\ ValidAbove(ColumnValues(out.resampled, c), k) = {}
           /\ NotNaN(out.df[k].cells[c])

StrictlyIncreasing(df) == \A k \in 1..(Len(df) - 1) : df[k].ts < df[k + 1].ts
NonDecreasing(df) == \A k \in 1..(Len(df) - 1) : df[k].ts <= df[k + 1].ts

\* every reading's interval of width W has exactly one row, which holds the
\* mean of the readings of that interval
MergedByMean(rows, W) ==
    \A i \in 1..Len(readings) :
        LET b == readings[i].ts \div W
            SameInterval(r) == r.ts \div W = b
            group == SelectSeq(ToNumericFrame(readings), SameInterval)
            at == {k \in 1..Len(rows) : rows[k].ts = b * W}
        IN /\ Cardinality(at) = 1
           /\ \A k \in at : \A c \in 1..Len(rows[k].cells) :
                  rows[k].cells[c] = Mean(ColumnValues(group, c))

\* C17 as stated: with or without a resample frequency the returned frame
\* is strictly increasing by timestamp, and readings that share a timestamp
\* or an interval are merged into one row holding their mean.
TableStrictlyOrdered ==
    out.op = "prepare_dataframe" =>
        /\ StrictlyIncreasing(out.df)
        /\ MergedByMean(out.resampled, IF out.resample_freq = 0 THEN 1 ELSE out.resample_freq)

\* C17: with a resample frequency the returned frame is strictly increasing
\* by timestamp and every interval that has readings is one row holding
\* their mean; without one the frame is the readings sorted by timestamp,
\* one row for each reading, so equal timestamps stay separate rows.
TableOrdering ==
    out.op = "prepare_dataframe" =>
        IF out.resample_freq # 0
        THEN /\ StrictlyIncreasing(out.df)
             /\ MergedByMean(out.resampled, out.resample_freq)
        ELSE /\ NonDecreasing(out.df)
             /\ \E p \in IndexOrders(Len(readings)) :
                    out.resampled = SortIndex(ToNumericFrame(readings), p)

\* two readings given out of order, with different timestamps, merged into
\* the one row of their interval
TableOrderingWitness ==
    /\ out.op = "prepare_dataframe"
    /\ out.resample_freq # 0
    /\ Len(readings) = 2
    /\ readings[1].ts > readings[2].ts
    /\ Len(out.df) = 1
    /\ out.df[1].cells[1] = Float(3, 2)

\* C14: transform on a processor on which neither fit nor load_params of a
\* file with scaler vectors was performed fails with the not-fitted
\* ValueError and leaves the processor as it was.
NotFitted ==
    [][(out'.op = "transform" /\ proc.history \in {"new", "config"}) =>
           /\ out'.result = Raised("ValueError", "not_fitted")
           /\ proc' = proc]_vars

\* transform refused on a processor that only loaded a file without vectors
NotFittedWitness ==
    /\ out.op = "transform"
    /\ proc.history = "config"
    /\ record.exists
    /\ out.result.status = "ValueError"

\* C15: after save_params and load_params into a fresh processor, transform
\* gives on every input what the processor that wrote the file gives,
\* constant columns included.
PersistReload ==
    (out.op = "transform" /\ proc.history = "loaded_fresh") =>
        out.result = ProcessorTransform(proc.source, out.input)

\* C11: the split puts the first int(N * (1 - test_split)) of the N windows,
\* in their order, into the training part and the remaining ones, in their
\* order, into the held-out part; targets are split at the same index.
TrainTestSplit ==
    out.op = "split" =>
        LET N == Len(X)
            k == (N * (out.test_split[2] - out.test_split[1])) \div out.test_split[2]
        IN /\ Len(out.X_train) = k
           /\ Len(out.y_train) = k
           /\ Len(out.X_test) = N - k
           /\ Len(out.y_test) = N - k
           /\ \A i \in 1..k : out.X_train[i] = X[i] /\ out.y_train[i] = y[i]
           /\ \A j \in 1..(N - k) : out.X_test[j] = X[k + j] /\ out.y_test[j] = y[k + j]

\* four or more windows, not all alike, split into two non-empty parts
TrainTestSplitWitness ==
    /\ out.op = "split"
    /\ Len(X) >= 4
    /\ X[1] # X[Len(X)]
    /\ Len(out.X_train) >= 2
    /\ Len(out.X_test) >= 2

EmptyColumns(df) ==
    {c \in 1..Len(df[1].cells) : \A k \in 1..Len(df) : IsNaN(df[k].cells[c])}

HasNaN(windows) ==
    \E i \in 1..Len(windows) : \E k \in 1..Len(windows[i]) :
        \E c \in 1..Len(windows[i][k]) : IsNaN(windows[i][k][c])

\* C18: when a feature column of the prepared frame has no valid value,
\* prepare_training_data fails instead of returning, and in no case returns
\* windows that contain missing values.
EmptyColumnFails ==
    out.op = "prepare_training_data" =>
        /\ EmptyColumns(out.df) # {} => out.status # "ok"
        /\ out.status = "ok" => ~HasNaN(out.X_train) /\ ~HasNaN(out.X_test)

\* C12: create_inference_sequence of a fitted processor returns one block
\* holding the scaled last sequence_length rows of the table, in order and
\* with every column; on a table of fewer rows it fails.
InferenceWindow ==
    (out.op = "create_inference_sequence" /\ proc.self.is_fitted) =>
        LET S == proc.self.sequence_length
            rows == AsFloats(data)
        IN IF Len(rows) < S THEN out.result.status # "ok"
           ELSE out.result =
                    Returned(<<MinMaxScalerTransform(
                                   proc.self.scaler,
                                   [k \in 1..S |-> rows[Len(rows) - S + k]],
                                   proc.self.feature_columns).value>>)

\* C13: train() does not go on with fewer than 10 windows: a run that made
\* its version had at least 10, and the call that is refused for its data
\* leaves every file of models_dir as it was.
MinimumWindows ==
    [][/\ (run.pc = "idle" /\ run'.pc # "idle") => run'.windows >= 10
       /\ (ret'.op = "train" /\ ret'.status = "raised" /\ ret'.at = "data") =>
              /\ files' = files
              /\ run' = run]_vars

\* a call refused for 9 windows while models_dir holds an earlier run's files
MinimumWindowsWitness ==
    /\ ret.op = "train"
    /\ ret.status = "raised"
    /\ ret.at = "data"
    /\ ret.windows = 9
    /\ DOMAIN files # {}

\* C19: train() asked for a model type MODEL_CONFIGS does not have never
\* makes a run, and no file is written under such a type.
UnknownModelType ==
    /\ run.pc # "idle" => run.model_type \in DOMAIN ModelConfigs
    /\ \A name \in DOMAIN files : files[name].by = 0 \/ name.stem # UnknownType \o <<"short">>

\* C20: predict and train_model hand no exception to their caller: each
\* returns a record with success; a record with success false has an error;
\* predict for a key without a regressor file fails with a suggestion;
\* success is true only when every step went through.
ApiBoundary ==
    /\ ret.op # "train"
    /\ ret.op = "train_model" =>
           IF ret.success
           THEN /\ Exists(files, ResultsFile(ret.results.model_path))
                /\ files[ResultsFile(ret.results.model_path)] = ret.results
           ELSE "error" \in DOMAIN ret
    /\ ret.op = "predict" =>
           /\ ret.outcome.status = "return"
           /\ "success" \in DOMAIN ret.outcome.value
           /\ ~ret.outcome.value.success => "error" \in DOMAIN ret.outcome.value
           /\ ModelFiles(files, ret.model_type, ret.horizon) = {} =>
                  /\ ~ret.outcome.value.success
                  /\ "suggestion" \in DOMAIN ret.outcome.value
           /\ ret.outcome.value.success =>
                  /\ LoadLatestModel(files, ret.model_type, ret.horizon).status = "ok"
                  /\ ret.n_rows >=
                         LoadLatestModel(files, ret.model_type, ret.horizon).processor.sequence_length
                  /\ ret.failing = "none"

\* predict refused with the suggestion while a regressor file of its key is
\* there, the training run not having written the metadata yet
ApiBoundaryWitness ==
    /\ ret.op = "predict"
    /\ ret.outcome.status = "return"
    /\ ~ret.outcome.value.success
    /\ "suggestion" \in DOMAIN ret.outcome.value
    /\ ModelFiles(files, ret.model_type, ret.horizon) # {}

\* C21: a training request with fewer than 100 readings, none included, is
\* answered with success false by the handler in the same step, and that
\* step leaves the files and the training runs as they are.
RequestValidation ==
    [][\A n_readings \in ReadingCounts, key \in ApiKeys, now \in {clock, clock + 1},
          n_windows \in WindowCounts :
           (n_readings < MinReadings
              /\ Handler(n_readings, key[1], key[2], now, n_windows))
           => /\ ret'.op = "handler"
              /\ ret'.success = FALSE
              /\ files' = files
              /\ run' = run
              /\ nRuns' = nRuns]_vars

\* a request of 99 readings turned down while the store holds artifacts
RequestValidationWitness ==
    /\ ret.op = "handler"
    /\ ret.n_readings = 99
    /\ ~ret.success
    /\ files # <<>>

\* C22: generate_future_timestamps returns 24 timestamps for 'short' and 7
\* for 'medium'; the k-th is the last known timestamp plus k hours (short,
\* default frequency) or plus k days (medium); the list is strictly
\* increasing and starts strictly after the last known timestamp.
FutureTimestampList ==
    out.op = "generate_future_timestamps" =>
        LET r == out.result
            n == IF out.horizon = "short" THEN 24 ELSE 7
        IN /\ Len(r) = n
           /\ (out.horizon = "short" /\ out.freq_minutes = 60) =>
                  \A k \in 1..n : r[k] = IsoFormat(out.last_timestamp + k * 60)
           /\ out.horizon = "medium" =>
                  \A k \in 1..n : r[k] = IsoFormat(out.last_timestamp + k * 1440)
           /\ LexLess(IsoFormat(out.last_timestamp), r[1])
           /\ \A k \in 1..(n - 1) : LexLess(r[k], r[k + 1])

\* hourly steps from the last minute of a day: the first one is in the next day
FutureTimestampListWitness ==
    /\ out.op = "generate_future_timestamps"
    /\ out.horizon = "short"
    /\ out.freq_minutes = 60
    /\ out.last_timestamp = 1439
    /\ out.result[1] = <<1, 0, 59>>
    /\ Len(out.result) = 24

ConfidenceInRange(r) ==
    \A k \in 1..Len(r) :
        /\ NotNaN(r[k])
        /\ ~FLess(r[k], Float(1, 2))
        /\ ~FLess(Float(99, 100), r[k])

ConfidenceNonIncreasing(r) == \A k \in 1..(Len(r) - 1) : ~FLess(r[k], r[k + 1])

\* C23: for every input and every number of prediction steps the
\* list _estimate_confidence returns is non-increasing in the step and every
\* value is in [0.5, 0.99].
ConfidenceDecay ==
    out.op = "_estimate_confidence" =>
        /\ Len(out.result) = out.prediction_steps
        /\ ConfidenceInRange(out.result)
        /\ ConfidenceNonIncreasing(out.result)

\* the store without what the run with this id wrote
WithoutRun(fs, id) == [f \in {g \in DOMAIN fs : fs[g].by # id} |-> fs[f]]

\* C25: when train has raised after the checkpoint file of its version was
\* written, load_latest_model for its model type and horizon still succeeds
\* and returns the complete artifact it returned before that run.
FailedRunKeepsServing ==
    (ret.op = "train" /\ ret.status = "raised" /\ ret.at \notin {"data", "fit"}) =>
        LET before == LoadLatestModel(WithoutRun(files, nRuns), ret.model_type, ret.horizon)
        IN before.status = "ok" =>
               LoadLatestModel(files, ret.model_type, ret.horizon) = before

\* C24: a successful prediction response holds one entry for every
\* prediction step of the loaded model, 24 for 'short' and 7 for 'medium',
\* none of the values the model gave is left out, and entry k pairs the k-th
\* timestamp, the k-th value and the k-th confidence; this for artifacts
\* written by ModelTrainer.train or by main.train_model.
ForecastLength ==
    (ret.op = "predict" /\ ret.outcome.value.success) =>
        LET load == LoadLatestModel(files, ret.model_type, ret.horizon)
            steps == load.predictor.metadata.prediction_steps
            entries == ret.outcome.value.predicted_values
            timestamps ==
                GenerateFutureTimestamps(0, ret.horizon,
                                         IF ret.horizon = "short" THEN 60 ELSE 1440)
            confidence == EstimateConfidence("loaded", Float(1, 10), steps)
        IN /\ steps = (IF ret.horizon = "short" THEN 24 ELSE 7)
           /\ Len(entries) = steps
           /\ Len(entries) = load.predictor.model.outputs
           /\ \A k \in 1..Len(entries) :
                  /\ entries[k].timestamp = timestamps[k]
                  /\ entries[k].value.output = k
                  /\ entries[k].confidence = Round(confidence[k], 1000)

\* C26: in a successful prediction response model_version and model_metrics
\* are those of the results record of the version whose regressor and scaler
\* gave the predicted values, whatever files the store holds.
ReportedVersionServed ==
    (ret.op = "predict" /\ ret.outcome.value.success) =>
        LET load == LoadLatestModel(files, ret.model_type, ret.horizon)
        IN /\ ret.outcome.value.model_version = load.model_path.version
           /\ ret.outcome.value.model_metrics # "None"
           /\ ret.outcome.value.model_metrics.model = load.predictor.model.by

\* the model paths that have both a metadata and a processor file
PersistedPaths(fs) ==
    {PathOf(f) : f \in {g \in DOMAIN fs :
                           /\ EndsWith(g, "_metadata.json")
                           /\ Exists(fs, ProcessorFile(PathOf(g)))}}

\* C27: for every artifact written by ModelTrainer.train or main.train_model
\* the sequence_length and prediction_steps of its metadata file are those
\* of its processor file.
MetadataProcessorAgree ==
    \A model_path \in PersistedPaths(files) :
        /\ files[MetadataFile(model_path)].sequence_length
               = files[ProcessorFile(model_path)].sequence_length
        /\ files[MetadataFile(model_path)].prediction_steps
               = files[ProcessorFile(model_path)].prediction_steps

\* C28: after load_params of a record on a processor in any state the
\* processor is fitted exactly when the record holds scaler vectors, and then
\* its data_min_ and data_max_ are those of the record; after a record saved
\* by an unfitted processor transform fails as not fitted.
LoadReplacesScaling ==
    (out.op = "load_params" /\ out.result.status = "ok") =>
        LET params == out.result.value
        IN IF params.scaler_min.null
           THEN /\ ~proc.self.is_fitted
                /\ \A values \in FloatTables(1, 1) :
                       ProcessorTransform(proc.self, values).at = "not_fitted"
           ELSE /\ proc.self.is_fitted
                /\ proc.self.scaler.data_min_ = JsonLoadList(params.scaler_min.list)
                /\ proc.self.scaler.data_max_ = JsonLoadList(params.scaler_max.list)
                /\ proc.self.target_scaler.data_min_
                       = JsonLoadList(params.target_scaler_min.list)
                /\ proc.self.target_scaler.data_max_
                       = JsonLoadList(params.target_scaler_max.list)

ActiveModelUnique ==
    /\ [](\A model_type \in RegistryTypes :
             Cardinality(ActiveRows(registry, model_type)) <= 1)
    /\ [][\A i \in DOMAIN registry' :
             (registry'[i].is_active /\ (i \notin DOMAIN registry \/ ~registry[i].is_active))
                 => (ret'.op = "set_active_model" /\ ret'.model_id = i)]_vars

====
